---- MODULE Spec2Model ----
(***************************************************************************)
(* Model of convenient-discussions.                                        *)
(*                                                                         *)
(* Spec: the autocomplete engine (src/src/js/Autocomplete.js).  One        *)
(* Autocomplete instance is built for one trigger type; its `values`       *)
(* handler is called with the text typed after the trigger, runs           *)
(* synchronously up to the remote lookup and is resumed when the lookup    *)
(* resolves or rejects.                                                    *)
(*                                                                         *)
(* SpecSearch: the pure function Autocomplete.search applied to bounded    *)
(* inputs.                                                                 *)
(*                                                                         *)
(* SpecPage: one Page instance (src/src/js/Page.js): getCode,              *)
(* analyzeNewTopicPlacement and modifyCode.                                *)
(*                                                                         *)
(* Strings are sequences of one-character strings; a list of names is a    *)
(* sequence of such sequences.                                             *)
(***************************************************************************)
EXTENDS Integers, Sequences, FiniteSets, TLC

VARIABLES
  type,       \* options.types[0]: the trigger type of the instance
  default,    \* this.mentions.default
  snapshot,   \* this[type].snapshot
  cache,      \* this[type].cache
  byText,     \* this[type].byText
  pending,    \* remote lookups awaiting their collaborator
  qcount,     \* number of calls of the values handler so far
  nLookups,   \* per query text: calls of the remote-lookup collaborator
  nAsync,     \* per query text: callbacks made after the await
  last,       \* what the most recent step did (callbacks, lookup issued)
  found,      \* the most recent application of Autocomplete.search
  page,       \* the fields of the Page instance
  override,   \* cd.config.areNewTopicsOnTop: absent, or what it answers for the page
  plast,      \* what the most recent operation on the page did
  slast       \* what the most recent operation of options.js did

acVars == <<type, default, snapshot, cache, byText, pending, qcount, nLookups, nAsync, last>>
pageVars == <<page, override, plast>>
vars == <<acVars, found, pageVars, slast>>

\* The value of a variable that belongs to another specification.
Unused == <<>>

----------------------------------------------------------------------------
(* Bounds of the model *)

MaxQueries == 3

(* Program constants *)

TypedTextIndex == 9
MentionsMaxLength == 85
MentionsMaxSpaces == 4
PageNameMaxLength == 255
PageNameMaxSpaces == 9
TemplatesEndOffset == 2

----------------------------------------------------------------------------
(* String helpers (String.prototype.startsWith / includes / trim, RegExp)  *)

RECURSIVE SeqToSet(_)
SeqToSet(s) == IF s = <<>> THEN {} ELSE {Head(s)} \cup SeqToSet(Tail(s))

StartsWith(s, p) == Len(p) <= Len(s) /\ SubSeq(s, 1, Len(p)) = p

Includes(s, p) == \E i \in 0..(Len(s) - Len(p)) : SubSeq(s, i + 1, i + Len(p)) = p

LowerChar(c) ==
  CASE c = "A" -> "a"
    [] c = "B" -> "b"
    [] c = "F" -> "f"
    [] c = "M" -> "m"
    [] c = "U" -> "u"
    [] OTHER -> c

ToLower(s) == [i \in 1..Len(s) |-> LowerChar(s[i])]

WhiteSpace == {" ", "\t", "\n"}

RECURSIVE TrimStart(_)
TrimStart(s) == IF s # <<>> /\ Head(s) \in WhiteSpace THEN TrimStart(Tail(s)) ELSE s

RECURSIVE TrimEnd(_)
TrimEnd(s) ==
  IF s # <<>> /\ s[Len(s)] \in WhiteSpace THEN TrimEnd(SubSeq(s, 1, Len(s) - 1)) ELSE s

Trim(s) == TrimEnd(TrimStart(s))

CountSpaces(s) == Cardinality({i \in 1..Len(s) : s[i] = " "})

HasCharIn(s, chars) == \E i \in 1..Len(s) : s[i] \in chars

\* `undefined`, and what String(undefined) gives when a string method coerces it.
Undefined == <<"undefined">>
UndefinedStr == <<"u", "n", "d", "e", "f", "i", "n", "e", "d">>
AsString(v) == IF v = Undefined THEN UndefinedStr ELSE v

\* An empty slot of a sparse array.
Hole == <<"empty slot">>

----------------------------------------------------------------------------
(* Environment: site configuration and inputs *)

CURRENT_USER_NAME == <<"M", "e">>
UserNamespace == <<"U">>
ColonNamespaces == {<<"F">>}

Texts ==
  { <<>>,
    <<"a">>,
    <<"a", " ">>,
    <<"b">>,
    <<"{", "{", "[", "[">>,
    <<":", "F", ":", "a">> }

DefaultUserNamesChoices ==
  { <<>>,
    << <<"b", "a", "b">>, CURRENT_USER_NAME, <<"A", "b", "e">> >> }

Digit(i) == <<"0", "1", "2", "3", "4", "5", "6", "7", "8", "9">>[i]

\* Eleven distinct names that all contain "a ", the first not as a prefix.
ManyNames == << <<"x", "a", " ">> >> \o [i \in 1..10 |-> <<"a", " ", Digit(i)>>]

\* What a name-lookup collaborator may answer.
Responses ==
  { <<>>,
    << <<"a">>, CURRENT_USER_NAME, <<"b", "a">>, <<"a">> >>,
    ManyNames }

----------------------------------------------------------------------------
(* Pure helpers of Autocomplete.js and util.js *)

\* cd.g.COLON_NAMESPACES_PREFIX_REGEXP: ":" + a colon namespace + ":" at the start.
ColonNamespacesPrefixTest(text) ==
  \E ns \in ColonNamespaces : StartsWith(ToLower(text), <<":">> \o ToLower(ns) \o <<":">>)

\* colonNamespacesRegexp of getWikilinksConfig: a colon namespace + ":" at the start.
ColonNamespacesTest(name) ==
  \E ns \in ColonNamespaces : StartsWith(ToLower(name), ToLower(ns) \o <<":">>)

\* containsRegexp.test(item) and startsWithRegexp.test(item), both with the i flag.
ContainsTest(text, item) == Includes(ToLower(item), ToLower(text))
StartsWithTest(text, item) == StartsWith(ToLower(item), ToLower(text))

\* The comparator handed to Array.prototype.sort.
SearchCompare(text, item1, item2) ==
  IF StartsWithTest(text, item1) /\ ~StartsWithTest(text, item2) THEN -1
  ELSE IF StartsWithTest(text, item2) /\ ~StartsWithTest(text, item1) THEN 1
  ELSE 0

\* Mutant: an unstable sort, an item goes before the items equal to it.
RECURSIVE InsertSortedUnstable(_, _, _)
InsertSortedUnstable(text, sorted, item) ==
  IF sorted = <<>> THEN <<item>>
  ELSE IF SearchCompare(text, Head(sorted), item) < 0
       THEN <<Head(sorted)>> \o InsertSortedUnstable(text, Tail(sorted), item)
       ELSE <<item>> \o sorted

\* Array.prototype.sort is stable: an item goes after every item not greater than it.
RECURSIVE InsertSorted(_, _, _)
InsertSorted(text, sorted, item) ==
  IF sorted = <<>> THEN <<item>>
  ELSE IF SearchCompare(text, Head(sorted), item) <= 0
       THEN <<Head(sorted)>> \o InsertSorted(text, Tail(sorted), item)
       ELSE <<item>> \o sorted

RECURSIVE StableSort(_, _)
StableSort(text, list) ==
  IF list = <<>> THEN <<>>
  ELSE InsertSorted(text, StableSort(text, SubSeq(list, 1, Len(list) - 1)), list[Len(list)])

Search(text, list) ==
  StableSort(text, SelectSeq(list, LAMBDA item : ContainsTest(text, item)))

\* removeDuplicates of util.js: the first occurrence of every value, in order.
RECURSIVE RemoveDuplicates(_)
RemoveDuplicates(arr) ==
  IF arr = <<>> THEN <<>>
  ELSE LET init == SubSeq(arr, 1, Len(arr) - 1)
           x == arr[Len(arr)]
       IN IF x \in SeqToSet(init) THEN RemoveDuplicates(init)
          ELSE RemoveDuplicates(init) \o <<x>>

\* defined of util.js; Array.prototype.filter also skips empty slots.
Defined(el) == el # Hole /\ el # Undefined

\* config.transform of the three configurations.
Transform(ty, item) ==
  LET name == Trim(item) IN
  CASE ty = "mentions" ->
         <<"@", "[", "[">> \o UserNamespace \o <<":">> \o name \o <<"|">> \o name \o <<"]", "]">>
    [] ty = "wikilinks" ->
         <<"[", "[">> \o (IF ColonNamespacesTest(name) THEN <<":">> \o name ELSE name) \o <<"]", "]">>
    [] ty = "templates" -> <<"{", "{">> \o name \o <<"}", "}">>

GetEndOffset(ty) == IF ty = "templates" THEN TemplatesEndOffset ELSE 0

PrepareValues(arr, ty) ==
  LET kept == SelectSeq(RemoveDuplicates(arr), Defined)
  IN [i \in 1..Len(kept) |->
        [key |-> kept[i], value |-> Transform(ty, kept[i]), endOffset |-> GetEndOffset(ty)]]

\* config.removeSelf of getMentionsConfig.
RemoveSelf(arr) == SelectSeq(arr, LAMBDA name : name # CURRENT_USER_NAME)

\* values[index] = x on a JavaScript array: shorter arrays grow, leaving empty slots.
SetAt(values, index, x) ==
  IF Len(values) > index THEN [values EXCEPT ![index + 1] = x]
  ELSE values \o [i \in 1..(index - Len(values)) |-> Hole] \o <<x>>

\* Mutant: the typed text is pushed at the end instead of being put in slot 9.
WithTypedTextPushed(values, text) == Append(values, Trim(text))

\* "Make the typed text always appear on the last, 10th place."
WithTypedText(values, text) == SetAt(values, TypedTextIndex, Trim(text))

MentionsIsLikelyName(text) ==
  /\ text # <<>>
  /\ Len(text) <= MentionsMaxLength
  /\ ~HasCharIn(text, {"#", "<", ">", "[", "]", "|", "{", "}", "/", "@", ":"})
  /\ CountSpaces(text) <= MentionsMaxSpaces

WikilinksIsLikelyName(text) ==
  /\ text # <<>>
  /\ Len(text) <= PageNameMaxLength
  /\ ~HasCharIn(text, {"#", "<", ">", "[", "]", "|", "{", "}"})
  /\ (~StartsWith(text, <<":">>) \/ ColonNamespacesPrefixTest(text))
  /\ CountSpaces(text) <= PageNameMaxSpaces

TemplatesIsLikelyName(text) ==
  /\ text # <<>>
  /\ Len(text) <= PageNameMaxLength
  /\ ~HasCharIn(text, {"#", "<", ">", "[", "]", "|", "{", "}"})
  /\ CountSpaces(text) <= PageNameMaxSpaces

IsLikelyName(ty, text) ==
  CASE ty = "mentions" -> MentionsIsLikelyName(text)
    [] ty = "wikilinks" -> WikilinksIsLikelyName(text)
    [] ty = "templates" -> TemplatesIsLikelyName(text)

----------------------------------------------------------------------------
(* The decisions of a `values` handler *)

Types == {"mentions", "wikilinks", "templates"}

\* The wikilinks handler drops the leading colon of ":File:..." before anything else.
EffectiveText(ty, text0) ==
  IF ty = "wikilinks" /\ ColonNamespacesPrefixTest(text0) THEN Tail(text0) ELSE text0

QueryTexts == {EffectiveText(ty, t) : ty \in Types, t \in Texts}

\* "Fix multiple event firing": only the mentions handler has this guard.
IsSuppressed(ty, text, snap) == ty = "mentions" /\ text # <<>> /\ snap = text

\* Mutant: the prefix test is the wrong way round (snapshot.startsWith(text)).
CacheAfterQueryReversed(text, snap, c) == IF StartsWith(AsString(snap), text) THEN c ELSE <<>>

\* if (!text.startsWith(snapshot)) cache = [];
CacheAfterQuery(text, snap, c) == IF StartsWith(text, AsString(snap)) THEN c ELSE <<>>

\* text.includes('[[') (mentions, wikilinks) or text.includes('{{') (templates)
IncludesTrigger(ty, text) ==
  Includes(text, IF ty = "templates" THEN <<"{", "{">> ELSE <<"[", "[">>)

\* Names of truthy properties of Object.prototype
PrototypeKeys ==
  {<<"c", "o", "n", "s", "t", "r", "u", "c", "t", "o", "r">>,
   <<"v", "a", "l", "u", "e", "O", "f">>}

\* Mutant: the memo is never consulted.
IsMemoizedNever(text, memo) == FALSE

\* Mutant: the memo is consulted only while the cache is empty.
IsMemoizedWhenNoCache(text, memo) == text \in DOMAIN memo /\ cache = <<>>

\* if (this[type].byText[text]): byText is a plain object ({}), so the lookup also finds
\* what Object.prototype has under the text, a function.
IsMemoized(text, memo) == text \in DOMAIN memo \/ text \in PrototypeKeys

\* The array the local pass hands to prepareValues.
LocalValues(ty, text, dflt, c) ==
  IF ty = "mentions"
  THEN LET matches == Search(text, dflt)
       IN IF MentionsIsLikelyName(text)
          THEN WithTypedText(Search(text, IF matches = <<>> THEN matches \o c ELSE matches), text)
          ELSE matches
  ELSE IF IsLikelyName(ty, text) THEN WithTypedText(Search(text, c), text) ELSE <<>>

\* The entries the local pass found, before the typed text is put in.
LocalMatches(ty, text, dflt, c) ==
  IF ty = "mentions"
  THEN LET matches == Search(text, dflt)
       IN IF MentionsIsLikelyName(text) /\ matches = <<>> THEN Search(text, c) ELSE matches
  ELSE IF IsLikelyName(ty, text) THEN Search(text, c) ELSE <<>>

\* Mutant: the mentions handler asks the collaborator even when the default list matched.
ShouldRequestIfLikely(ty, text, dflt) == IsLikelyName(ty, text)

\* Whether the handler goes on to the remote pass.
ShouldRequest(ty, text, dflt) ==
  IF ty = "mentions"
  THEN MentionsIsLikelyName(text) /\ Search(text, dflt) = <<>>
  ELSE IsLikelyName(ty, text)

\* What the handler keeps of the collaborator's answer.
RemoteValues(ty, resp) == IF ty = "mentions" THEN RemoveSelf(resp) ELSE resp

\* Mutant: the resumed handler delivers without looking at the snapshot.
IsCurrentAlways(text, snap) == TRUE

\* if (this[type].snapshot !== text) return;
IsCurrent(text, snap) == snap = text

\* Mutant: the memo keeps only the entry stored last.
MemoPutAlone(memo, text, values) == [t \in {text} |-> values]

\* this[type].byText[text] = values;
MemoPut(memo, text, values) ==
  [t \in DOMAIN memo \cup {text} |-> IF t = text THEN values ELSE memo[t]]

Call(arr, ty) == [arr |-> arr, list |-> PrepareValues(arr, ty)]

\* The record of a step: which operation ran for which query text, the callbacks it
\* made, and what else it did.
Step(op, text) ==
  [op |-> op, text |-> text, suppressed |-> FALSE, superseded |-> FALSE,
   discarded |-> FALSE, requested |-> FALSE, localMatches |-> 0, threw |-> FALSE,
   calls |-> <<>>]

----------------------------------------------------------------------------
(* The state machine *)

Init ==
  /\ type \in Types
  /\ \E names \in DefaultUserNamesChoices :
       default = IF type = "mentions" THEN RemoveSelf(names) ELSE <<>>
  /\ snapshot = Undefined
  /\ cache = <<>>
  /\ byText = [t \in {} |-> <<>>]
  /\ pending = {}
  /\ qcount = 0
  /\ nLookups = [t \in QueryTexts |-> 0]
  /\ nAsync = [t \in QueryTexts |-> 0]
  /\ last = Step("init", <<>>)
  /\ found = Unused
  /\ page = Unused
  /\ override = Unused
  /\ plast = Unused
  /\ slast = Unused

\* values(text0, callback), up to its first await or its return.
Values(text0) ==
  LET text == EffectiveText(type, text0)
      id == qcount + 1
      request == ShouldRequest(type, text, default)
      kept == CacheAfterQuery(text, snapshot, cache)
      step == [Step("query", text) EXCEPT !.discarded = (kept # cache)]
  IN
  /\ qcount < MaxQueries
  /\ qcount' = id
  /\ UNCHANGED <<found, pageVars, slast>>
  /\ UNCHANGED <<type, default, byText, nAsync>>
  /\ IF IsSuppressed(type, text, snapshot)
     THEN /\ last' = [step EXCEPT !.suppressed = TRUE]
          /\ UNCHANGED <<snapshot, cache, pending, nLookups>>
     ELSE /\ cache' = kept
          /\ snapshot' = text
          /\ IF IncludesTrigger(type, text)
             THEN /\ last' = [step EXCEPT !.calls = <<Call(<<>>, type)>>]
                  /\ pending' = {[r EXCEPT !.superseded = r.superseded \/ r.text # text] : r \in pending}
                  /\ UNCHANGED nLookups
             ELSE IF IsMemoized(text, byText)
             THEN /\ last' = IF text \in DOMAIN byText
                             THEN [step EXCEPT !.calls = <<Call(byText[text], type)>>]
                             ELSE [step EXCEPT !.threw = TRUE]
                  /\ pending' = {[r EXCEPT !.superseded = r.superseded \/ r.text # text] : r \in pending}
                  /\ UNCHANGED nLookups
             ELSE /\ last' = [step EXCEPT
                                !.calls = <<Call(LocalValues(type, text, default, kept), type)>>,
                                !.localMatches = Len(LocalMatches(type, text, default, kept)),
                                !.requested = request]
                  /\ pending' =
                       {[r EXCEPT !.superseded = r.superseded \/ r.text # text] : r \in pending}
                       \cup (IF request
                             THEN {[id |-> id, text |-> text, superseded |-> FALSE]}
                             ELSE {})
                  /\ nLookups' = IF request
                                 THEN [nLookups EXCEPT ![text] = @ + 1]
                                 ELSE nLookups

\* The rest of the handler once the collaborator has answered resp.
Resolved(r, resp) ==
  LET values == RemoteValues(type, resp)
      stored == WithTypedText(values, r.text)
      deliver == IsCurrent(r.text, snapshot)
      step == [Step("resolve", r.text) EXCEPT !.superseded = r.superseded]
  IN
  /\ pending' = pending \ {r}
  /\ cache' = values
  /\ byText' = MemoPut(byText, r.text, stored)
  /\ last' = IF deliver THEN [step EXCEPT !.calls = <<Call(stored, type)>>] ELSE step
  /\ nAsync' = IF deliver THEN [nAsync EXCEPT ![r.text] = @ + 1] ELSE nAsync
  /\ UNCHANGED <<type, default, snapshot, qcount, nLookups>>
  /\ UNCHANGED <<found, pageVars, slast>>

\* Mutant: a failure is treated as an empty answer instead of ending the handler.
RejectedAsEmpty(r) ==
  /\ pending' = pending \ {r}
  /\ cache' = <<>>
  /\ byText' = MemoPut(byText, r.text, WithTypedText(<<>>, r.text))
  /\ last' = [Step("reject", r.text) EXCEPT !.superseded = r.superseded]
  /\ UNCHANGED <<type, default, snapshot, qcount, nLookups, nAsync>>
  /\ UNCHANGED <<found, pageVars, slast>>

\* catch (e) { return; }
Rejected(r) ==
  /\ pending' = pending \ {r}
  /\ last' = [Step("reject", r.text) EXCEPT !.superseded = r.superseded]
  /\ UNCHANGED <<type, default, snapshot, cache, byText, qcount, nLookups, nAsync>>
  /\ UNCHANGED <<found, pageVars, slast>>

Next ==
  \/ \E text0 \in Texts : Values(text0)
  \/ \E r \in pending : \E resp \in Responses : Resolved(r, resp)
  \/ \E r \in pending : Rejected(r)

Spec == Init /\ [][Next]_vars

----------------------------------------------------------------------------
(* Properties of the autocomplete engine *)

Min(a, b) == IF a < b THEN a ELSE b

Keys(list) == [i \in 1..Len(list) |-> list[i].key]

\* C1: when a remote lookup for query text t resolves, the callback is invoked with
\* its result exactly when the channel's snapshot equals t at that moment; a response
\* whose text differs from the snapshot makes no callback.
C1_DeliveredOnlyIfCurrent ==
  last.op = "resolve" =>
    /\ Len(last.calls) <= 1
    /\ (last.calls # <<>>) <=> (snapshot = last.text)
    /\ last.calls # <<>> => last.calls[1].arr = byText[last.text]

C1_Witness ==
  /\ last.op = "resolve"
  /\ last.calls # <<>>
  /\ snapshot = last.text
  /\ pending # {}

\* C2: a remote lookup whose query was superseded by a different query before it
\* resolved never fires its callback, whatever queries follow, and no query text
\* receives two asynchronous deliveries.
C2_SupersededNeverFires ==
  /\ (last.op = "resolve" /\ last.superseded) => last.calls = <<>>
  /\ \A t \in QueryTexts : nAsync[t] <= 1

\* C3: a response that resolves while the snapshot is no longer its query text leaves
\* the cache and the byText memo unchanged.
C3_StaleResponseDiscarded ==
  [][(last'.op = "resolve" /\ pending' # pending /\ last'.text # snapshot)
       => (cache' = cache /\ byText' = byText)]_vars

\* C4 (as claimed): two queries with the same text never cause more than the one
\* call of the remote-lookup collaborator.  Stated for the mentions channel, where
\* the duplicate guard is in place.
C4_OneLookupPerText ==
  type = "mentions" => \A t \in QueryTexts : nLookups[t] <= 1

\* C4 (amended): once a lookup for text t has resolved, so that byText[t] is stored,
\* no later query adds a call of the collaborator for t.
C4_NoLookupOnceResolved ==
  [][\A t \in DOMAIN byText : nLookups'[t] = nLookups[t]]_vars

C4_Witness ==
  /\ last.op = "query"
  /\ ~last.suppressed
  /\ last.text \in DOMAIN byText
  /\ nLookups[last.text] = 1

\* C5: a query whose text equals the channel's current snapshot is suppressed: no
\* callback, no remote lookup, no change of the channel's state.  Stated for
\* non-empty text, which the guard of the mentions handler covers.
C5_DuplicateSuppressed ==
  [][(last'.op = "query" /\ qcount' = qcount + 1 /\ last'.text = snapshot
        /\ last'.text # <<>>)
       => /\ last'.calls = <<>>
          /\ ~last'.requested
          /\ UNCHANGED <<snapshot, cache, byText, pending, nLookups>>]_vars

\* C6 (as claimed): a remote lookup is issued only for a valid name for which the
\* local pass, over the default list or the cache, found nothing.
C6_LookupOnlyWithoutLocalMatches ==
  (last.op = "query" /\ last.requested) =>
    (IsLikelyName(type, last.text) /\ last.localMatches = 0)

\* C6 (amended): a remote lookup is issued only for a valid name and, on the mentions
\* channel, only if the default list has no match; it is issued for every such query
\* that is neither suppressed, nor containing the trigger, nor memoized, whatever the
\* cache matched.
C6_LookupIffLikelyAndNoDefaultMatch ==
  last.op = "query" =>
    (last.requested <=>
       /\ ~last.suppressed
       /\ last.text \notin DOMAIN byText
       /\ IsLikelyName(type, last.text)
       /\ (type = "mentions" => \A i \in 1..Len(default) : ~ContainsTest(last.text, default[i])))

C6_Witness ==
  /\ last.op = "query"
  /\ last.requested
  /\ last.localMatches > 0

\* C7: on a query that is not suppressed, the cache is emptied if the text does not
\* start with the previous snapshot and is left as it was if it does; the snapshot is
\* the query text afterwards.
C7_CacheDiscardedUnlessPrefix ==
  [][(last'.op = "query" /\ ~last'.suppressed /\ qcount' = qcount + 1)
       => /\ snapshot' = last'.text
          /\ (~StartsWith(last'.text, AsString(snapshot)) => cache' = <<>>)
          /\ (StartsWith(last'.text, AsString(snapshot)) => cache' = cache)]_vars

C7_Witness ==
  /\ last.op = "query"
  /\ last.discarded
  /\ cache = <<>>
  /\ snapshot = last.text

\* C8: a query, not suppressed, for a text that byText holds makes exactly one
\* callback, with the memoized list, and issues no remote lookup.
C8_MemoizedIsTerminal ==
  (last.op = "query" /\ ~last.suppressed /\ last.text \in DOMAIN byText) =>
    /\ last.calls = <<Call(byText[last.text], type)>>
    /\ ~last.requested
    /\ \A r \in pending : r.id # qcount

C8_Witness ==
  /\ last.op = "query"
  /\ ~last.suppressed
  /\ last.text \in DOMAIN byText
  /\ Len(last.calls) = 1
  /\ Len(last.calls[1].list) > 1

\* At least nine distinct candidates other than the typed text come first in arr.
NineOthersPrecede(arr, typed) ==
  /\ Len(arr) > TypedTextIndex
  /\ \A i \in 1..TypedTextIndex :
       /\ Defined(arr[i])
       /\ arr[i] # typed
       /\ \A j \in 1..TypedTextIndex : j # i => arr[j] # arr[i]

TypedTextIn(call, typed) ==
  LET keys == Keys(call.list) IN
  /\ \E i \in 1..Min(TypedTextIndex + 1, Len(keys)) : keys[i] = typed
  /\ NineOthersPrecede(call.arr, typed) =>
       (Len(keys) > TypedTextIndex /\ keys[TypedTextIndex + 1] = typed)

\* C9 (as claimed): every list delivered for a valid name holds the typed text among
\* its first ten entries, as the tenth when nine other candidates precede it.
C9_TypedTextDelivered ==
  (last.op \in {"query", "resolve"} /\ IsLikelyName(type, last.text)) =>
    \A i \in 1..Len(last.calls) : TypedTextIn(last.calls[i], last.text)

\* C9 (amended): every list delivered for a valid name holds the typed text with its
\* surrounding whitespace trimmed among its first ten entries, as the tenth when nine
\* other candidates precede it.
C9_TrimmedTypedTextDelivered ==
  (last.op \in {"query", "resolve"} /\ IsLikelyName(type, last.text)) =>
    \A i \in 1..Len(last.calls) : TypedTextIn(last.calls[i], Trim(last.text))

C9_Witness ==
  /\ last.op = "query"
  /\ IsLikelyName(type, last.text)
  /\ Len(last.calls) = 1
  /\ NineOthersPrecede(last.calls[1].arr, Trim(last.text))
  /\ last.calls[1].list[TypedTextIndex + 1].key = Trim(last.text)

\* C10: a rejection of the remote-lookup collaborator ends the handler quietly: it
\* does not throw, makes no callback, and leaves cache, byText and snapshot as they
\* were.
C10_RejectionSwallowed ==
  [][(last'.op = "reject" /\ pending' # pending)
       => /\ ~last'.threw
          /\ last'.calls = <<>>
          /\ UNCHANGED <<snapshot, cache, byText>>]_vars

C10_Witness ==
  /\ last.op = "reject"
  /\ cache # <<>>
  /\ DOMAIN byText # {}

\* C12: entries of the byText memo are never evicted: a text that has an entry keeps
\* one through every later query, cache discard, response and collaborator failure.
C12_MemoNeverEvicted ==
  [][\A t \in DOMAIN byText : t \in DOMAIN byText']_vars

\* Two texts are memoized, and a step that discarded the cache or a failed lookup has
\* just happened.
C12_Witness ==
  /\ Cardinality(DOMAIN byText) >= 2
  /\ \/ last.op = "reject"
     \/ last.op = "query" /\ last.discarded

----------------------------------------------------------------------------
(* Autocomplete.search applied to bounded inputs *)

MaxListLen == 4

SearchNames == {<<"a">>, <<"A", "b">>, <<"b", "a">>, <<"b", "A">>, <<"b">>}

SearchTexts == {<<>>, <<"a">>, <<"A">>, <<"a", "b">>}

House == <<"h", "o", "u", "s", "e">>

HouseList ==
  << <<"h", "o", "u", "s", "e", "k", "e", "e", "p", "e", "r">>,
     <<"b", "u", "i", "l", "t", " ", "t", "h", "e", " ", "h", "o", "u", "s", "e">>,
     <<"m", "o", "u", "s", "e">> >>

SearchLists == UNION {[1..n -> SearchNames] : n \in 0..MaxListLen}

SearchInputs ==
  {[text |-> t, list |-> l] : t \in SearchTexts, l \in SearchLists}
  \cup {[text |-> House, list |-> HouseList]}

SearchInit ==
  /\ \E in \in SearchInputs :
       found = [text |-> in.text, list |-> in.list, applied |-> FALSE, result |-> <<>>]
  /\ type = "mentions"
  /\ default = <<>>
  /\ snapshot = Undefined
  /\ cache = <<>>
  /\ byText = [t \in {} |-> <<>>]
  /\ pending = {}
  /\ qcount = 0
  /\ nLookups = [t \in QueryTexts |-> 0]
  /\ nAsync = [t \in QueryTexts |-> 0]
  /\ last = Step("init", <<>>)
  /\ page = Unused
  /\ override = Unused
  /\ plast = Unused
  /\ slast = Unused

\* Autocomplete.search(text, list)
ApplySearch ==
  /\ ~found.applied
  /\ found' = [found EXCEPT !.applied = TRUE, !.result = Search(found.text, found.list)]
  /\ UNCHANGED <<acVars, pageVars, slast>>

SearchNext == ApplySearch

SpecSearch == SearchInit /\ [][SearchNext]_vars

\* C11: search(text, list) returns exactly the entries of list that contain text
\* case-insensitively, the entries that start with text first and the others after
\* them, each group in the order of list; search("house", ["housekeeper",
\* "built the house", "mouse"]) is ["housekeeper", "built the house"].
C11_SearchFilterThenPrefixFirst ==
  found.applied =>
    /\ found.result =
         SelectSeq(found.list, LAMBDA item : StartsWith(ToLower(item), ToLower(found.text)))
         \o SelectSeq(found.list, LAMBDA item :
               /\ Includes(ToLower(item), ToLower(found.text))
               /\ ~StartsWith(ToLower(item), ToLower(found.text)))
    /\ (found.text = House /\ found.list = HouseList)
         => found.result = <<HouseList[1], HouseList[2]>>

\* A search that drops an entry, moves a prefix match ahead of an earlier mid-string
\* match, and keeps two distinct prefix matches in the order of the list.
C11_Witness ==
  /\ found.applied
  /\ Len(found.result) < Len(found.list)
  /\ \E i, j \in 1..Len(found.list) :
       /\ i < j
       /\ ContainsTest(found.text, found.list[i])
       /\ ~StartsWithTest(found.text, found.list[i])
       /\ StartsWithTest(found.text, found.list[j])
  /\ \E i, j \in 1..Len(found.result) :
       /\ i < j
       /\ found.result[i] # found.result[j]
       /\ StartsWithTest(found.text, found.result[i])
       /\ StartsWithTest(found.text, found.result[j])

----------------------------------------------------------------------------
(* The Page model: wikitext helpers *)

\* Page code is a sequence of characters.  A timestamp (a signature's date and time)
\* is one element of the sequence, "T1", "T2" or "T3", so offsets count it as one
\* character.
SetMin(S) == CHOOSE x \in S : \A y \in S : x <= y

\* String.prototype.slice(start, end), with offsets counted from zero.
SliceIndex(s, i) ==
  IF i < 0 THEN (IF Len(s) + i < 0 THEN 0 ELSE Len(s) + i)
  ELSE IF i > Len(s) THEN Len(s) ELSE i

Slice(s, start, end) == SubSeq(s, SliceIndex(s, start) + 1, SliceIndex(s, end))

SliceFrom(s, start) == Slice(s, start, Len(s))

IsAt(s, p, pattern) ==
  p + Len(pattern) - 1 <= Len(s) /\ SubSeq(s, p, p + Len(pattern) - 1) = pattern

CommentOpen == <<"<", "!", "-", "-">>
CommentClose == <<"-", "-", ">">>

\* The character that stands in for a character of a comment.
Placeholder == "#"

\* The positions from p on that lie in a comment: a comment runs from "<!--" to the
\* next "-->", or to the end of the code when it is not terminated.
RECURSIVE HiddenFrom(_, _)
HiddenFrom(code, p) ==
  IF p > Len(code) THEN {}
  ELSE IF IsAt(code, p, CommentOpen)
  THEN LET closes == {q \in (p + 4)..Len(code) : IsAt(code, q, CommentClose)}
       IN IF closes = {} THEN p..Len(code)
          ELSE (p..(SetMin(closes) + 2)) \cup HiddenFrom(code, SetMin(closes) + 3)
  ELSE HiddenFrom(code, p + 1)

\* hideHtmlComments of wikitext.js: every comment is replaced by a placeholder of the
\* same length, the other characters stay.
HideHtmlComments(code) ==
  LET hidden == HiddenFrom(code, 1)
  IN [i \in 1..Len(code) |-> IF i \in hidden THEN Placeholder ELSE code[i]]

\* ^ under the m flag
LineStart(code, i) == i = 1 \/ code[i - 1] = "\n"

\* [ \t]*(?:<!--[^]*?-->[ \t]*)*\n matched at p: the position after the match, 0 when
\* there is no match.
RECURSIVE TrailEnd(_, _)
TrailEnd(code, p) ==
  IF p > Len(code) THEN 0
  ELSE IF code[p] = "\n" THEN p + 1
  ELSE IF code[p] \in {" ", "\t"} THEN TrailEnd(code, p + 1)
  ELSE IF IsAt(code, p, CommentOpen)
  THEN LET ends == {q \in (p + 4)..Len(code) :
                      IsAt(code, q, CommentClose) /\ TrailEnd(code, q + 3) > 0}
       IN IF ends = {} THEN 0 ELSE TrailEnd(code, SetMin(ends) + 3)
  ELSE 0

\* /^==[^=].*?==[ \t]*(?:<!--[^]*?-->[ \t]*)*\n/m matched at i: the position after
\* the match, 0 when there is no match.
SectionHeadingEnd(code, i) ==
  IF /\ LineStart(code, i)
     /\ IsAt(code, i, <<"=", "=">>)
     /\ i + 2 <= Len(code)
     /\ code[i + 2] # "="
  THEN LET closes == {j \in (i + 3)..Len(code) :
                        /\ \A k \in (i + 3)..(j - 1) : code[k] # "\n"
                        /\ IsAt(code, j, <<"=", "=">>)
                        /\ TrailEnd(code, j + 2) > 0}
       IN IF closes = {} THEN 0 ELSE TrailEnd(code, SetMin(closes) + 2)
  ELSE 0

\* sectionHeadingRegexp.exec(code) with the given lastIndex: <<>> for null, or the
\* match's index and the new lastIndex (offsets from zero).
SectionHeadingExec(code, lastIndex) ==
  LET starts == {i \in (lastIndex + 1)..Len(code) : SectionHeadingEnd(code, i) > 0}
  IN IF starts = {} THEN <<>>
     ELSE <<[index |-> SetMin(starts) - 1,
             lastIndex |-> SectionHeadingEnd(code, SetMin(starts)) - 1]>>

\* /^(=+).*?\1/m matched at i
AnyHeadingAt(code, i) ==
  /\ LineStart(code, i)
  /\ \E k \in 1..Len(code) :
       /\ \A m \in i..(i + k - 1) : m <= Len(code) /\ code[m] = "="
       /\ \E j \in (i + k)..Len(code) :
            /\ \A m \in (i + k)..(j - 1) : code[m] # "\n"
            /\ \A m \in j..(j + k - 1) : m <= Len(code) /\ code[m] = "="

\* String.prototype.search(/^(=+).*?\1/m): the offset of the first match, or -1.
AnyHeadingSearch(code) ==
  LET starts == {i \in 1..Len(code) : AnyHeadingAt(code, i)}
  IN IF starts = {} THEN -1 ELSE SetMin(starts) - 1

Timestamps == {"T1", "T2", "T3"}

\* findFirstTimestamp of wikitext.js: <<>> when the text has no timestamp, or the first
\* one in it.
FindFirstTimestamp(text) ==
  LET at == {i \in 1..Len(text) : text[i] \in Timestamps}
  IN IF at = {} THEN <<>> ELSE <<text[SetMin(at)]>>

\* parseTimestamp of timestamp.js: the date of a timestamp, a later date is greater.
ParseTimestamp(timestamp) ==
  CASE timestamp = "T1" -> [date |-> 1]
    [] timestamp = "T2" -> [date |-> 2]
    [] timestamp = "T3" -> [date |-> 3]

\* difference += date > previousDate ? -1 : 1, behind if (date) and if (previousDate)
Tallied(difference, previousDate, date) ==
  IF previousDate = <<>> THEN difference
  ELSE difference + (IF date[1] > previousDate[1] THEN -1 ELSE 1)

\* The while loop over the section headings: the difference when it ends.  An absent
\* date is <<>>.
RECURSIVE TallyLoop(_, _, _, _, _)
TallyLoop(code, adjustedCode, lastIndex, previousDate, difference) ==
  LET sectionHeadingMatch == SectionHeadingExec(adjustedCode, lastIndex)
  IN IF sectionHeadingMatch = <<>> THEN difference
     ELSE LET timestamp == FindFirstTimestamp(SliceFrom(code, sectionHeadingMatch[1].index))
              date == IF timestamp = <<>> THEN <<>>
                      ELSE <<ParseTimestamp(timestamp[1]).date>>
          IN IF date # <<>>
             THEN TallyLoop(code, adjustedCode, sectionHeadingMatch[1].lastIndex, date,
                            Tallied(difference, previousDate, date))
             ELSE TallyLoop(code, adjustedCode, sectionHeadingMatch[1].lastIndex,
                            previousDate, difference)

\* Mutant: a positive difference means that new topics go to the bottom.
PlacementByTallyInverted(difference, namespace) ==
  IF difference = 0 THEN namespace % 2 = 0 ELSE difference < 0

\* areNewTopicsOnTop = difference === 0 ? this.namespace % 2 === 0 : difference > 0;
PlacementByTally(difference, namespace) ==
  IF difference = 0 THEN namespace % 2 = 0 ELSE difference > 0

\* What cd.config.areNewTopicsOnTop gives: <<>> for undefined (no function, or a
\* function without an answer), or the answer.
OverrideAnswer(ov) ==
  IF ov = "true" THEN <<TRUE>> ELSE IF ov = "false" THEN <<FALSE>> ELSE <<>>

\* Mutant: the first section is searched for only when the tally is needed.
SearchesFirstSectionForTally(areNewTopicsOnTop) == areNewTopicsOnTop = <<>>

\* if (areNewTopicsOnTop !== false)
SearchesFirstSection(areNewTopicsOnTop) == areNewTopicsOnTop # <<FALSE>>

\* const firstSectionStartIndex = adjustedPageCode.search(/^(=+).*?\1/m);
InsertionIndex(pageCode) == AnyHeadingSearch(HideHtmlComments(pageCode))

\* Mutant: the existing code is taken as it is, without a newline added.
BottomCodeBeforeInsertionAsIs(pageCode) == TrimStart(pageCode)

\* codeBeforeInsertion = (pageCode + '\n').trimStart();
BottomCodeBeforeInsertion(pageCode) == TrimStart(pageCode \o <<"\n">>)

\* Mutant: the comment is followed by a newline at the bottom as it is on top, and a
\* repeated call adds one more.
ModifiedCodeWithNewline(pageCode, commentCode, isNewTopicOnTop) ==
  LET before == IF isNewTopicOnTop
                THEN Slice(pageCode, 0, InsertionIndex(pageCode))
                ELSE BottomCodeBeforeInsertion(pageCode)
      after == IF isNewTopicOnTop
               THEN SliceFrom(pageCode, InsertionIndex(pageCode))
               ELSE IF plast.op = "modifyCode" THEN <<"\n">> ELSE <<>>
  IN [newPageCode |-> before \o commentCode \o <<"\n">> \o after,
      codeBeforeInsertion |-> before,
      commentCode |-> commentCode]

\* modifyCode(pageCode, { commentForm })
ModifiedCode(pageCode, commentCode, isNewTopicOnTop) ==
  IF isNewTopicOnTop
  THEN LET firstSectionStartIndex == InsertionIndex(pageCode)
           codeBeforeInsertion == Slice(pageCode, 0, firstSectionStartIndex)
           codeAfterInsertion == SliceFrom(pageCode, firstSectionStartIndex)
       IN [newPageCode |-> codeBeforeInsertion \o commentCode \o <<"\n">> \o codeAfterInsertion,
           codeBeforeInsertion |-> codeBeforeInsertion,
           commentCode |-> commentCode]
  ELSE [newPageCode |-> BottomCodeBeforeInsertion(pageCode) \o commentCode,
        codeBeforeInsertion |-> BottomCodeBeforeInsertion(pageCode),
        commentCode |-> commentCode]

----------------------------------------------------------------------------
(* The Page model: the state machine *)

MaxSections == 3

Heading == <<"=", "=", "h", "=", "=", "\n">>

\* What a revision has before its first section: nothing, a blank line, a level-1 or a
\* level-3 heading, or a comment that holds a section.
Preambles ==
  { <<>>,
    <<" ", "\n">>,
    <<"=", "h", "=", "\n">>,
    <<"=", "=", "=", "h", "=", "=", "=", "\n">>,
    CommentOpen \o <<"\n">> \o Heading \o <<"T3", "\n">> \o CommentClose \o <<"\n">> }

\* A section: its heading, and then nothing or a comment signed with a timestamp.
Sections ==
  { Heading,
    Heading \o <<"T1", "\n">>,
    Heading \o <<"T2", "\n">>,
    Heading \o <<"T3", "\n">> }

RECURSIVE Concat(_)
Concat(seqs) == IF seqs = <<>> THEN <<>> ELSE Head(seqs) \o Concat(Tail(seqs))

\* revision.content: a preamble and some sections, without the newline that ends the
\* last line.
Contents ==
  {Slice(pre \o Concat(ss), 0, -1) :
     pre \in Preambles, ss \in UNION {[1..n -> Sections] : n \in 0..MaxSections}}

Namespaces == {0, 1}

Overrides == {"absent", "true", "false", "undefined"}

CommentCodes == {<<"=", "=", "n", "=", "=", "\n", "c", "T3", "\n">>}

\* this.name
PageName == <<"P">>

\* mw.config.get('wgArticleId') of a page that exists
ArticleId == 7

\* The fields of a Page after its construction.  An optional field is <<>> while it is
\* undefined and <<v>> when it has the value v; code is Undefined or the code.
NewPage(ns) ==
  [name |-> PageName, namespace |-> ns, code |-> Undefined,
   pageId |-> <<>>, revisionId |-> <<>>, redirectTarget |-> <<>>, realName |-> <<>>,
   queryTimestamp |-> <<>>, areNewTopicsOnTop |-> <<>>, firstSectionStartIndex |-> <<>>]

\* The response to the revision request for a page that exists: query.pages[0] with
\* its revisions[0], query.redirects[0].to when there is a redirect, curtimestamp.
Revision(content, revid, redirect, curtimestamp) ==
  [kind |-> "response", query |-> TRUE, pages |-> TRUE, missing |-> FALSE,
   invalid |-> FALSE, revisions |-> TRUE, content |-> content, pageid |-> ArticleId,
   revid |-> revid, redirect |-> redirect, curtimestamp |-> curtimestamp]

\* The record of an operation on the page.
PageStep(op) ==
  [op |-> op, threw |-> "", tallied |-> FALSE, difference |-> 0,
   pageCode |-> <<>>, isNewTopicOnTop |-> FALSE,
   newPageCode |-> <<>>, codeBeforeInsertion |-> <<>>, commentCode |-> <<>>,
   requested |-> FALSE, reply |-> <<>>,
   title |-> <<>>, outcome |-> <<>>, submissions |-> 0, loadMessagesCalls |-> 0,
   parseCodeCalls |-> 0, unknownApiErrorTextCalls |-> 0, parsed |-> <<>>,
   raised |-> <<>>, returned |-> <<>>]

PageInit ==
  /\ \E ns \in Namespaces : page = NewPage(ns)
  /\ override \in Overrides
  /\ plast = PageStep("init")
  /\ slast = Unused
  /\ found = Unused
  /\ type = "mentions"
  /\ default = <<>>
  /\ snapshot = Undefined
  /\ cache = <<>>
  /\ byText = [t \in {} |-> <<>>]
  /\ pending = {}
  /\ qcount = 0
  /\ nLookups = [t \in QueryTexts |-> 0]
  /\ nAsync = [t \in QueryTexts |-> 0]
  /\ last = Step("init", <<>>)

\* Mutant: an invalid title is reported before a missing page.
LoadFailureInvalidFirst(reply) ==
  IF ~reply.query \/ ~reply.pages THEN "noData"
  ELSE IF reply.invalid THEN "invalid"
  ELSE IF reply.missing THEN "missing"
  ELSE IF ~reply.revisions THEN "noData"
  ELSE ""

\* The code of the CdError that getCode throws for a response, "" when it throws none.
LoadFailure(reply) ==
  IF ~reply.query \/ ~reply.pages THEN "noData"
  ELSE IF reply.missing THEN "missing"
  ELSE IF reply.invalid THEN "invalid"
  ELSE IF ~reply.revisions THEN "noData"
  ELSE ""

\* getCode(), with what wgArticleId is and what the revision request is answered
\* with: a response, or a rejection that handleApiReject turns into an exception.
GetCode(articleId, reply) ==
  LET step == [PageStep("getCode") EXCEPT !.reply = <<reply>>]
  IN
  /\ UNCHANGED <<acVars, found, slast, override>>
  /\ IF articleId = 0
     THEN \* return { code: '' };
          /\ plast' = PageStep("getCode")
          /\ UNCHANGED page
     ELSE IF reply.kind = "rejection"
     THEN /\ plast' = [step EXCEPT !.requested = TRUE, !.threw = "rejected"]
          /\ UNCHANGED page
     ELSE IF LoadFailure(reply) # ""
     THEN /\ plast' = [step EXCEPT !.requested = TRUE, !.threw = LoadFailure(reply)]
          /\ UNCHANGED page
     ELSE /\ plast' = [step EXCEPT !.requested = TRUE]
          /\ page' = [page EXCEPT
                        !.pageId = <<reply.pageid>>,
                        !.code = reply.content \o <<"\n">>,
                        !.revisionId = <<reply.revid>>,
                        !.redirectTarget = reply.redirect,
                        !.realName = IF reply.redirect # <<>> THEN reply.redirect
                                     ELSE <<page.name>>,
                        !.queryTimestamp = <<reply.curtimestamp>>]

\* Mutant: the analysis does not look whether the code is there.
CodeIsUndefinedNever(p) == FALSE

\* if (this.code === undefined)
CodeIsUndefined(p) == p.code = Undefined

\* analyzeNewTopicPlacement()
AnalyzeNewTopicPlacement ==
  LET answer == OverrideAnswer(override)
      adjustedCode == HideHtmlComments(page.code)
      sectionHeadingMatch == SectionHeadingExec(adjustedCode, 0)
      difference == TallyLoop(page.code, adjustedCode, 0, <<>>, 0)
      step == PageStep("analyze")
  IN
  /\ UNCHANGED <<acVars, found, slast, override>>
  /\ IF CodeIsUndefined(page)
     THEN \* throw new CdError(...)
          /\ plast' = [step EXCEPT !.threw = "CdError"]
          /\ UNCHANGED page
     ELSE IF SearchesFirstSection(answer) /\ sectionHeadingMatch = <<>>
     THEN \* sectionHeadingMatch.index, sectionHeadingMatch being null
          /\ plast' = [step EXCEPT !.threw = "TypeError"]
          /\ UNCHANGED page
     ELSE /\ page' =
               [page EXCEPT
                  !.areNewTopicsOnTop =
                     IF answer = <<>>
                     THEN <<PlacementByTally(difference, page.namespace)>>
                     ELSE answer,
                  !.firstSectionStartIndex =
                     IF SearchesFirstSection(answer)
                     THEN <<sectionHeadingMatch[1].index>>
                     ELSE <<>>]
          /\ plast' = IF answer = <<>>
                      THEN [step EXCEPT !.tallied = TRUE, !.difference = difference]
                      ELSE step

\* The codes modifyCode is called with: the page's code once it is loaded, and before
\* that codes that did not come from getCode (empty, not ended by a newline).
FreeCodes == {<<>>, <<"x">>, <<" ", "\n", "x">>, <<"x", "\n", "\n">>}

PageCodes == IF page.code = Undefined THEN FreeCodes ELSE {page.code}

\* modifyCode(pageCode, { commentForm })
ModifyCode(pageCode, commentCode, isNewTopicOnTop) ==
  LET modified == ModifiedCode(pageCode, commentCode, isNewTopicOnTop)
  IN
  /\ plast' = [PageStep("modifyCode") EXCEPT
                 !.pageCode = pageCode,
                 !.isNewTopicOnTop = isNewTopicOnTop,
                 !.newPageCode = modified.newPageCode,
                 !.codeBeforeInsertion = modified.codeBeforeInsertion,
                 !.commentCode = modified.commentCode]
  /\ UNCHANGED <<acVars, found, slast, page, override>>

PageNext ==
  \/ \E content \in Contents :
       page.code = Undefined /\ GetCode(ArticleId, Revision(content, 1, <<>>, 1))
  \/ AnalyzeNewTopicPlacement
  \/ \E pageCode \in PageCodes :
       \E commentCode \in CommentCodes : \E isNewTopicOnTop \in BOOLEAN :
         ModifyCode(pageCode, commentCode, isNewTopicOnTop)

SpecPage == PageInit /\ [][PageNext]_vars

----------------------------------------------------------------------------
(* Properties of the Page model *)

\* The offsets (from zero), in page order, of the top-level section headings of a code:
\* the lines of the form == heading == outside comments.
TopLevelHeadings(code) ==
  LET adjusted == HideHtmlComments(code)
      starts == {i \in 1..Len(code) : SectionHeadingEnd(adjusted, i) > 0}
  IN [k \in 1..Cardinality(starts) |->
        (CHOOSE i \in starts : Cardinality({j \in starts : j < i}) = k - 1) - 1]

HasTimestamp(code) == \E i \in 1..Len(code) : code[i] \in Timestamps

\* The date of the k-th top-level section: that of the first timestamp between its
\* heading and the next top-level heading, <<>> when there is none.
SectionDate(code, k) ==
  LET headings == TopLevelHeadings(code)
      end == IF k < Len(headings) THEN headings[k + 1] ELSE Len(code)
      timestamp == FindFirstTimestamp(Slice(code, headings[k], end))
  IN IF timestamp = <<>> THEN <<>> ELSE <<ParseTimestamp(timestamp[1]).date>>

SectionDates(code) == [k \in 1..Len(TopLevelHeadings(code)) |-> SectionDate(code, k)]

Analyzed == plast.op = "analyze" /\ page.code # Undefined

\* C13: for a loaded page without an override that has no or one top-level section
\* heading, or no timestamp at all, the analysis completes and sets areNewTopicsOnTop
\* to (namespace is even).
C13_FewSectionsFallBackToNamespace ==
  (/\ Analyzed
   /\ override = "absent"
   /\ Len(TopLevelHeadings(page.code)) <= 1 \/ ~HasTimestamp(page.code))
  => /\ plast.threw = ""
     /\ page.areNewTopicsOnTop = <<page.namespace % 2 = 0>>

\* C14: without an answer of the override, the analysis sets areNewTopicsOnTop to true
\* when the sections' first timestamps strictly decrease in page order and to false
\* when they strictly increase; in general to true when the tally is positive, to
\* false when it is negative, and to (namespace is even) when it is zero.
C14_PlacementFollowsTally ==
  (Analyzed /\ plast.threw = "" /\ plast.tallied) =>
    LET dates == SectionDates(page.code)
        dated == \A k \in 1..Len(dates) : dates[k] # <<>>
    IN /\ page.areNewTopicsOnTop =
            <<IF plast.difference > 0 THEN TRUE
              ELSE IF plast.difference < 0 THEN FALSE
              ELSE page.namespace % 2 = 0>>
       /\ (/\ Len(dates) >= 2
           /\ dated
           /\ \A k \in 1..(Len(dates) - 1) : dates[k][1] > dates[k + 1][1])
          => page.areNewTopicsOnTop = <<TRUE>>
       /\ (/\ Len(dates) >= 2
           /\ dated
           /\ \A k \in 1..(Len(dates) - 1) : dates[k][1] < dates[k + 1][1])
          => page.areNewTopicsOnTop = <<FALSE>>

\* Three sections dated t1 > t2 > t3 on a page of an odd namespace: new topics are on
\* top by the tally, against the namespace.
C14_Witness ==
  /\ Analyzed /\ plast.threw = "" /\ plast.tallied
  /\ page.namespace % 2 = 1
  /\ SectionDates(page.code) = <<(<<3>>), (<<2>>), (<<1>>)>>
  /\ page.areNewTopicsOnTop = <<TRUE>>

\* +1 when the earlier section is newer, -1 when it is older, 0 when a date is missing
PairScore(earlier, next) ==
  IF earlier = <<>> \/ next = <<>> THEN 0
  ELSE IF earlier[1] > next[1] THEN 1
  ELSE IF earlier[1] < next[1] THEN -1
  ELSE 0

RECURSIVE SumPairScores(_, _)
SumPairScores(dates, k) ==
  IF k >= Len(dates) THEN 0
  ELSE PairScore(dates[k], dates[k + 1]) + SumPairScores(dates, k + 1)

\* C15: the tally is the sum, over the pairs of consecutive top-level sections, of +1
\* when the earlier section's date is newer than the next one's, -1 when it is older
\* and 0 when a section of the pair has no timestamp.
C15_TallyOverConsecutivePairs ==
  (Analyzed /\ plast.threw = "" /\ plast.tallied) =>
    plast.difference = SumPairScores(SectionDates(page.code), 1)

\* C16: when the override answers yes or no, the analysis completes and sets
\* areNewTopicsOnTop to that answer for every page code, without the tally.
C16_OverrideDecides ==
  (Analyzed /\ override \in {"true", "false"}) =>
    /\ plast.threw = ""
    /\ ~plast.tallied
    /\ page.areNewTopicsOnTop = <<override = "true">>

\* C17: the analysis of a page whose code is not loaded fails with an internal error
\* and leaves every field of the page as it was; it assigns no derived field.
C17_AnalysisWithoutCodeFails ==
  [][(page.code = Undefined /\ plast'.op = "analyze")
       => (plast'.threw = "CdError" /\ page' = page)]_vars

\* The analysis has just failed on a page without code, whose derived fields are not
\* set.
C17_Witness ==
  /\ plast.op = "analyze"
  /\ plast.threw = "CdError"
  /\ page.code = Undefined
  /\ page.areNewTopicsOnTop = <<>>
  /\ page.firstSectionStartIndex = <<>>

C19_SplitAtAnalyzedIndex ==
  (/\ plast.op = "modifyCode"
   /\ plast.isNewTopicOnTop
   /\ plast.pageCode = page.code
   /\ page.firstSectionStartIndex # <<>>)
  => Len(plast.codeBeforeInsertion) = page.firstSectionStartIndex[1]

\* The existing code without its leading white space, ended by exactly one newline.
EndedByOneNewline(code) == TrimEnd(TrimStart(code)) \o <<"\n">>

\* C20: for a new topic at the bottom, codeBeforeInsertion is the existing code with
\* leading white space removed and exactly one trailing newline, and the new code is
\* codeBeforeInsertion followed directly by the comment.
C20_BottomEndsWithOneNewline ==
  (plast.op = "modifyCode" /\ ~plast.isNewTopicOnTop) =>
    /\ plast.codeBeforeInsertion = EndedByOneNewline(plast.pageCode)
    /\ plast.newPageCode = plast.codeBeforeInsertion \o plast.commentCode

\* C20, amended: for a new topic at the bottom, codeBeforeInsertion is the existing
\* code followed by one more newline, with the leading white space removed (so it is
\* empty for empty or blank code, and ends with the code's own newline and the added
\* one otherwise), and the new code is codeBeforeInsertion followed directly by the
\* comment.
C20_BottomAppendsNewlineThenTrims ==
  (plast.op = "modifyCode" /\ ~plast.isNewTopicOnTop) =>
    LET full == plast.pageCode \o <<"\n">>
        before == plast.codeBeforeInsertion
        removed == Len(full) - Len(before)
    IN /\ removed >= 0
       /\ before = SubSeq(full, removed + 1, Len(full))
       /\ \A i \in 1..removed : full[i] \in WhiteSpace
       /\ before = <<>> \/ before[1] \notin WhiteSpace
       /\ plast.newPageCode = before \o plast.commentCode

\* A new topic added at the bottom of loaded code that begins with white space:
\* codeBeforeInsertion lost the white space and ends with two newlines.
C20_Witness ==
  /\ plast.op = "modifyCode"
  /\ ~plast.isNewTopicOnTop
  /\ plast.pageCode = page.code
  /\ Head(plast.pageCode) \in WhiteSpace
  /\ Len(plast.codeBeforeInsertion) >= 3
  /\ Len(plast.codeBeforeInsertion) < Len(plast.pageCode)
  /\ SliceFrom(plast.codeBeforeInsertion, -2) = <<"\n", "\n">>

EndsWith(s, suffix) ==
  Len(suffix) <= Len(s) /\ SubSeq(s, Len(s) - Len(suffix) + 1, Len(s)) = suffix

----------------------------------------------------------------------------
(* Page.getCode with every shape of response *)

LoadContents == {<<>>, Heading \o <<"T1">>}

RevisionIds == {1, 2}

RedirectTargets == {<<>>, << <<"R">> >>}

QueryTimestamps == {1}

Rejection == [kind |-> "rejection"]

\* The responses: with or without query, a page entry, its missing and invalid marks
\* and a revision.
Replies ==
  {Rejection} \cup
  {[Revision(content, revid, redirect, curtimestamp) EXCEPT
      !.query = q, !.pages = p, !.missing = m, !.invalid = i, !.revisions = r] :
     content \in LoadContents, revid \in RevisionIds, redirect \in RedirectTargets,
     curtimestamp \in QueryTimestamps,
     q \in BOOLEAN, p \in BOOLEAN, m \in BOOLEAN, i \in BOOLEAN, r \in BOOLEAN}

LoadInit ==
  /\ page = NewPage(1)
  /\ override = "absent"
  /\ plast = PageStep("init")
  /\ slast = Unused
  /\ found = Unused
  /\ type = "mentions"
  /\ default = <<>>
  /\ snapshot = Undefined
  /\ cache = <<>>
  /\ byText = [t \in {} |-> <<>>]
  /\ pending = {}
  /\ qcount = 0
  /\ nLookups = [t \in QueryTexts |-> 0]
  /\ nAsync = [t \in QueryTexts |-> 0]
  /\ last = Step("init", <<>>)

LoadNext == \E articleId \in {0, ArticleId} : \E reply \in Replies : GetCode(articleId, reply)

SpecLoad == LoadInit /\ [][LoadNext]_vars

\* C22: getCode fails with noData when the response has no query or no page entry,
\* with missing when the page is marked missing, with invalid when it is marked
\* invalid, and with noData when the page has no revision, checked in that order; a
\* failure leaves every field of the page as it was.
C22_LoadFailuresInOrder ==
  [][(/\ plast'.op = "getCode"
      /\ plast'.requested
      /\ plast'.reply[1].kind = "response")
     => LET reply == plast'.reply[1]
        IN /\ plast'.threw =
                (IF ~reply.query \/ ~reply.pages THEN "noData"
                 ELSE IF reply.missing THEN "missing"
                 ELSE IF reply.invalid THEN "invalid"
                 ELSE IF ~reply.revisions THEN "noData"
                 ELSE "")
           /\ plast'.threw # "" => page' = page]_vars

\* A reload answered with a page marked both missing and invalid has failed with
\* missing, and the fields of the earlier load are still there.
C22_Witness ==
  /\ plast.op = "getCode"
  /\ plast.threw = "missing"
  /\ plast.reply[1].invalid
  /\ page.code # Undefined
  /\ page.revisionId # <<>>

\* C23: whenever getCode completes without failure, code, revisionId, pageId and
\* queryTimestamp are those of the fetch, and realName is the redirect target when
\* there is one and the name otherwise, also after a reload without the redirect.
C23_LoadPopulatesFields ==
  (plast.op = "getCode" /\ plast.threw = "") =>
    /\ plast.reply # <<>>
    /\ LET reply == plast.reply[1]
       IN
       /\ page.code = reply.content \o <<"\n">>
       /\ page.revisionId = <<reply.revid>>
       /\ page.pageId = <<reply.pageid>>
       /\ page.queryTimestamp = <<reply.curtimestamp>>
       /\ page.redirectTarget = reply.redirect
       /\ page.realName = IF page.redirectTarget # <<>> THEN page.redirectTarget
                          ELSE <<page.name>>

----------------------------------------------------------------------------
(* Page.edit *)

\* apiData of a rejection: undefined, a payload without an error entry, or a payload
\* whose error has a code, an info, and the fields that belong to the code.
ApiData(payload, code) ==
  [payload |-> payload, code |-> code, info |-> "info",
   match |-> "http://x", description |-> "description"]

ErrorCodes ==
  {"spamblacklist", "titleblacklist", "abusefilter-warning", "abusefilter-disallowed",
   "editconflict", "blocked", "missingtitle", "readonly"}

AbuseFilterCodes == {"abusefilter-warning", "abusefilter-disallowed"}

\* What the edit request is rejected with, once through handleApiReject: a CdError of
\* type network, a CdError of type api with its apiData, or another exception.
EditErrors ==
  {[class |-> "CdError", type |-> "network", apiData |-> ApiData("undefined", "")],
   [class |-> "Error", type |-> "", apiData |-> ApiData("undefined", "")],
   [class |-> "CdError", type |-> "api", apiData |-> ApiData("undefined", "")],
   [class |-> "CdError", type |-> "api", apiData |-> ApiData("noError", "")]}
  \cup {[class |-> "CdError", type |-> "api", apiData |-> ApiData("error", code)] :
          code \in ErrorCodes}

NoError == [class |-> "", type |-> "", apiData |-> ApiData("undefined", "")]

NewPageIds == {ArticleId, ArticleId + 1}

\* resp.edit of a successful edit, or the rejection
EditOutcomes ==
  {[kind |-> "success", pageid |-> id, newtimestamp |-> 1, error |-> NoError] :
     id \in NewPageIds}
  \cup {[kind |-> "failure", pageid |-> 0, newtimestamp |-> 0, error |-> e] :
          e \in EditErrors}

\* What cd.g.api.loadMessagesIfMissing and parseCode are answered with.
LoadMessagesResults == {"ok", "rejected"}
ParseCodeResults == {"html", "nohtml", "rejected"}

Details(code, message, isRawMessage, logMessage) ==
  [code |-> code, message |-> message, isRawMessage |-> isRawMessage,
   logMessage |-> logMessage]

NoDetails == Details("", Undefined, FALSE, Undefined)

\* Mutant: a network failure is classified like the others.
IsNetworkNever(e) == FALSE

\* if (type === 'network')
IsNetwork(e) == e.type = "network"

\* unknownApiErrorText of apiWrappers.js: a text that names the code and the info.
UnknownApiErrorText(code, info) == <<"error-api", code, info>>

\* Mutant: a deleted page is reported like an unknown failure.
MessageOfDeletedAsUnknown(error, parsed) ==
  CASE error.code = "spamblacklist" -> <<"error-spamblacklist", error.match>>
    [] error.code = "titleblacklist" -> <<"error-titleblacklist">>
    [] error.code \in AbuseFilterCodes ->
         IF parsed = "html" THEN <<"html", error.code, error.description>>
         ELSE <<"error-abusefilter", error.description>>
    [] error.code = "editconflict" -> <<"error-editconflict">>
    [] error.code = "blocked" -> <<"error-blocked">>
    [] OTHER -> <<"error-pagenotedited", " ">> \o UnknownApiErrorText(error.code, error.info)

\* The switch on error.code: the message, where cd.s(name, parameter) is the name with
\* the parameter and the html of a parsed message is "html" with what was parsed.
MessageOf(error, parsed) ==
  CASE error.code = "spamblacklist" -> <<"error-spamblacklist", error.match>>
    [] error.code = "titleblacklist" -> <<"error-titleblacklist">>
    [] error.code \in AbuseFilterCodes ->
         IF parsed = "html" THEN <<"html", error.code, error.description>>
         ELSE <<"error-abusefilter", error.description>>
    [] error.code = "editconflict" -> <<"error-editconflict">>
    [] error.code = "blocked" -> <<"error-blocked">>
    [] error.code = "missingtitle" -> <<"error-pagedeleted">>
    [] OTHER -> <<"error-pagenotedited", " ">> \o UnknownApiErrorText(error.code, error.info)

\* details of the CdError that edit throws for a failure of type api
Classified(apiData, parsed) ==
  IF apiData.payload = "error"
  THEN Details(apiData.code, MessageOf(apiData, parsed),
               apiData.code \in AbuseFilterCodes /\ parsed = "html",
               <<apiData.code, "apiData">>)
  ELSE Details("", Undefined, FALSE,
               IF apiData.payload = "undefined" THEN Undefined ELSE <<"apiData">>)

KnownCodes == ErrorCodes \ {"readonly"}

\* Mutant: a failed request is sent once more.
EditSubmissionsRetrying(outcome) == IF outcome.kind = "failure" THEN 2 ELSE 1

\* The calls of cd.g.api.postWithEditToken made by one edit: the one at the start of
\* the try block.
EditSubmissions(outcome) == 1

\* What edit throws: where the exception comes from ("submit": the rejection of the
\* request itself, "classified": the CdError built from it, or the collaborator that
\* rejected), with the rejection or the details.
Raised(origin, error, details) == [origin |-> origin, error |-> error, details |-> details]

\* Mutant: a successful edit also drops the code that was loaded.
EditedPageUnloaded(p, resp) == [p EXCEPT !.pageId = <<resp.pageid>>, !.code = Undefined]

\* this.pageId = resp.edit.pageid;
EditedPage(p, resp) == [p EXCEPT !.pageId = <<resp.pageid>>]

\* edit(options), with the outcome of the request and the answers that
\* loadMessagesIfMissing and parseCode would give
Edit(outcome, loaded, parsed) ==
  LET e == outcome.error
      apiData == e.apiData
      step == [PageStep("edit") EXCEPT
                 !.title = IF page.realName # <<>> THEN page.realName ELSE <<page.name>>,
                 !.outcome = <<outcome>>,
                 !.submissions = EditSubmissions(outcome)]
  IN
  /\ UNCHANGED <<acVars, found, slast, override>>
  /\ IF outcome.kind = "success"
     THEN /\ page' = EditedPage(page, outcome)
          /\ plast' = [step EXCEPT !.returned = <<outcome.newtimestamp>>]
     ELSE
       /\ UNCHANGED page
       /\ plast' =
            IF e.class # "CdError" \/ IsNetwork(e)
            THEN [step EXCEPT !.raised = <<Raised("submit", e, NoDetails)>>]
            ELSE IF apiData.payload = "error" /\ apiData.code \in AbuseFilterCodes
            THEN IF loaded = "rejected"
                 THEN [step EXCEPT
                         !.loadMessagesCalls = 1,
                         !.raised = <<Raised("loadMessagesIfMissing", NoError, NoDetails)>>]
                 ELSE IF parsed = "rejected"
                 THEN [step EXCEPT
                         !.loadMessagesCalls = 1,
                         !.parseCodeCalls = 1,
                         !.parsed = <<parsed>>,
                         !.raised = <<Raised("parseCode", NoError, NoDetails)>>]
                 ELSE [step EXCEPT
                         !.loadMessagesCalls = 1,
                         !.parseCodeCalls = 1,
                         !.parsed = <<parsed>>,
                         !.raised =
                            <<Raised("classified", NoError, Classified(apiData, parsed))>>]
            ELSE [step EXCEPT
                    !.unknownApiErrorTextCalls =
                       IF apiData.payload = "error" /\ apiData.code \notin KnownCodes
                       THEN 1 ELSE 0,
                    !.raised =
                       <<Raised("classified", NoError, Classified(apiData, parsed))>>]

EditInit ==
  /\ \E realName \in {<<>>, <<PageName>>} \cup (RedirectTargets \ {<<>>}) :
       \E pageId \in {<<>>, <<ArticleId>>} :
         page = [NewPage(1) EXCEPT !.realName = realName, !.pageId = pageId]
  /\ override = "absent"
  /\ plast = PageStep("init")
  /\ slast = Unused
  /\ found = Unused
  /\ type = "mentions"
  /\ default = <<>>
  /\ snapshot = Undefined
  /\ cache = <<>>
  /\ byText = [t \in {} |-> <<>>]
  /\ pending = {}
  /\ qcount = 0
  /\ nLookups = [t \in QueryTexts |-> 0]
  /\ nAsync = [t \in QueryTexts |-> 0]
  /\ last = Step("init", <<>>)

EditNext ==
  \E outcome \in EditOutcomes : \E loaded \in LoadMessagesResults :
    \E parsed \in ParseCodeResults : Edit(outcome, loaded, parsed)

SpecEdit == EditInit /\ [][EditNext]_vars

Edited == plast.op = "edit"

Failed == plast.op = "edit" /\ plast.raised # <<>>

\* C24: when the request fails with a network failure, edit throws that same failure:
\* it is not wrapped, carries no message, isRawMessage or logMessage of edit's making,
\* and no message is loaded and no wikitext parsed.
C24_NetworkFailureRethrown ==
  (Edited /\ plast.outcome[1].kind = "failure" /\ plast.outcome[1].error.type = "network")
  => /\ plast.raised = <<Raised("submit", plast.outcome[1].error, NoDetails)>>
     /\ plast.loadMessagesCalls = 0
     /\ plast.parseCodeCalls = 0
     /\ plast.unknownApiErrorTextCalls = 0

C24_Witness ==
  /\ Failed
  /\ plast.outcome[1].error.type = "network"
  /\ plast.raised[1].origin = "submit"

ApiFailure ==
  /\ Edited
  /\ plast.outcome[1].kind = "failure"
  /\ plast.outcome[1].error.class = "CdError"
  /\ plast.outcome[1].error.type = "api"

RawCode ==
  IF plast.outcome[1].error.apiData.payload = "error"
  THEN plast.outcome[1].error.apiData.code
  ELSE ""

RawError == plast.outcome[1].error.apiData

\* C25: the failure codes are classified by the failure alone: spamblacklist with the
\* first matched pattern in the message, titleblacklist, editconflict, blocked,
\* missingtitle as a deleted page, and any unrecognized code as unknown with the info
\* of the failure in the message.
C25_ClassifiedByCode ==
  (ApiFailure /\ RawCode # "" /\ RawCode \notin AbuseFilterCodes)
  => /\ plast.raised # <<>>
     /\ plast.raised[1].origin = "classified"
     /\ plast.raised[1].details.code = RawCode
     /\ plast.raised[1].details.isRawMessage = FALSE
     /\ RawCode = "spamblacklist"
          => plast.raised[1].details.message = <<"error-spamblacklist", RawError.match>>
     /\ RawCode = "titleblacklist"
          => plast.raised[1].details.message = <<"error-titleblacklist">>
     /\ RawCode = "editconflict"
          => plast.raised[1].details.message = <<"error-editconflict">>
     /\ RawCode = "blocked"
          => plast.raised[1].details.message = <<"error-blocked">>
     /\ RawCode = "missingtitle"
          => plast.raised[1].details.message = <<"error-pagedeleted">>
     /\ RawCode \notin KnownCodes
          => /\ plast.raised[1].details.message[1] = "error-pagenotedited"
             /\ plast.unknownApiErrorTextCalls = 1
             /\ \E i \in DOMAIN plast.raised[1].details.message :
                  plast.raised[1].details.message[i] = RawError.info

C25_Witness ==
  /\ ApiFailure
  /\ RawCode = "missingtitle"
  /\ plast.raised[1].origin = "classified"
  /\ plast.raised[1].details.message = <<"error-pagedeleted">>

\* C26: for an abuse filter failure whose message could not be parsed (parseCode
\* rejected or gave no html), edit throws the classified failure of that code with the
\* plain message and isRawMessage false; isRawMessage is true only for an abuse filter
\* failure whose message was parsed to html.
C26_AbuseFilterFallsBackToPlainText ==
  /\ (ApiFailure /\ RawCode \in AbuseFilterCodes
        /\ plast.parsed \in {<<"rejected">>, <<"nohtml">>})
     => /\ plast.raised[1].origin = "classified"
        /\ plast.raised[1].details.code = RawCode
        /\ plast.raised[1].details.message = <<"error-abusefilter", RawError.description>>
        /\ plast.raised[1].details.isRawMessage = FALSE
  /\ (Failed /\ plast.raised[1].details.isRawMessage)
     => /\ RawCode \in AbuseFilterCodes
        /\ plast.parsed = <<"html">>

\* C27: a failure that is not a network failure is thrown as one failure that has a
\* message and a logMessage, also when the data of the failure has no error entry.
C27_MessageAndLogMessageDefined ==
  (Failed /\ plast.raised[1].origin = "classified")
  => /\ plast.raised[1].details.message # Undefined
     /\ plast.raised[1].details.logMessage # Undefined

----------------------------------------------------------------------------
(* options.setSettings *)

\* A settings object is the sequence of its <<key, value>> pairs in the order of
\* Object.keys.
SettingKeys == <<"k1", "k2", "k3">>
SettingValues == {0, 1}

\* cd.localSettingNames
LocalSettingNames == {"k1"}

\* cd.g.LOCAL_SETTINGS_OPTION_FULL_NAME and cd.g.SETTINGS_OPTION_FULL_NAME
LocalSettingsOptionFullName == "localSettings"
SettingsOptionFullName == "settings"

RECURSIVE SettingsFrom(_)
SettingsFrom(i) ==
  IF i > Len(SettingKeys) THEN {<<>>}
  ELSE LET rest == SettingsFrom(i + 1) IN
       rest \cup {<< <<SettingKeys[i], v>> >> \o r : v \in SettingValues, r \in rest}

SettingsObjects == SettingsFrom(1)

\* cd.settings
CdSettings == << <<"k1", 0>>, <<"k2", 0>>, <<"k3", 0>> >>

\* The argument of setSettings: <<a settings object>>, or <<>> for undefined
SettingsArguments == {<<object>> : object \in SettingsObjects} \cup {<<>>}

\* JSON.stringify of a settings object
Stringify(object) == <<"{">> \o object \o <<"}">>

\* What a save request is answered with: success, or the exception that it rejects
\* with (a CdError whose data.apiData is undefined, has no error entry or has an
\* error with a code, or another exception).
SaveOk == [class |-> "", apiData |-> "undefined", code |-> ""]
SaveErrors ==
  {[class |-> "CdError", apiData |-> "error", code |-> "badvalue"],
   [class |-> "CdError", apiData |-> "error", code |-> "readonly"],
   [class |-> "CdError", apiData |-> "noError", code |-> ""],
   [class |-> "CdError", apiData |-> "undefined", code |-> ""],
   [class |-> "Error", apiData |-> "undefined", code |-> ""]}
SaveResults == {SaveOk} \cup SaveErrors

\* The exception of reading .code of an undefined error entry
TypeError == [class |-> "TypeError", apiData |-> "undefined", code |-> ""]

Request(fn, name, value) == [fn |-> fn, name |-> name, value |-> value]

\* localSettings of setSettings
LocalSettings(settings) ==
  SelectSeq(settings, LAMBDA kv : kv[1] \in LocalSettingNames)

GlobalSettings(settings) ==
  SelectSeq(settings, LAMBDA kv : kv[1] \notin LocalSettingNames)

\* e instanceof CdError && e.data.apiData && e.data.apiData.error.code === 'badvalue',
\* where the error entry exists
IsBadValue(e) == e.class = "CdError" /\ e.apiData = "error" /\ e.code = "badvalue"

SettingsStep(op) ==
  [op |-> op, settings |-> <<>>, localSettings |-> <<>>, globalSettings |-> <<>>,
   requests |-> <<>>, failure |-> <<>>, raised |-> <<>>]

\* setSettings(settings), with the answers to the two save requests and the one that
\* is answered first
SetSettings(argument, localResult, globalResult, first) ==
  LET settings == IF argument = <<>> THEN CdSettings ELSE argument[1]
      localSettings == LocalSettings(settings)
      globalSettings == GlobalSettings(settings)
      requests ==
        <<Request("setLocalOption", LocalSettingsOptionFullName, Stringify(localSettings)),
          Request("setGlobalOption", SettingsOptionFullName, Stringify(globalSettings))>>
      e == IF localResult # SaveOk /\ (globalResult = SaveOk \/ first = "local")
           THEN localResult
           ELSE globalResult
      step == [SettingsStep("setSettings") EXCEPT
                 !.settings = settings,
                 !.localSettings = localSettings,
                 !.globalSettings = globalSettings,
                 !.requests = requests]
  IN
  /\ UNCHANGED <<acVars, found, pageVars>>
  /\ slast' =
       IF e = SaveOk
       THEN step
       ELSE IF e.class = "CdError" /\ e.apiData = "noError"
       THEN [step EXCEPT !.failure = <<e>>, !.raised = <<TypeError>>]
       ELSE IF IsBadValue(e)
       THEN [step EXCEPT
               !.failure = <<e>>,
               !.requests = requests \o
                 <<Request("setLocalOption", SettingsOptionFullName,
                           Stringify(globalSettings))>>]
       ELSE [step EXCEPT !.failure = <<e>>, !.raised = <<e>>]

OptionsInit ==
  /\ slast = SettingsStep("init")
  /\ page = Unused
  /\ override = Unused
  /\ plast = Unused
  /\ found = Unused
  /\ type = "mentions"
  /\ default = <<>>
  /\ snapshot = Undefined
  /\ cache = <<>>
  /\ byText = [t \in {} |-> <<>>]
  /\ pending = {}
  /\ qcount = 0
  /\ nLookups = [t \in QueryTexts |-> 0]
  /\ nAsync = [t \in QueryTexts |-> 0]
  /\ last = Step("init", <<>>)

OptionsNext ==
  \E argument \in SettingsArguments : \E localResult \in SaveResults :
    \E globalResult \in SaveResults : \E first \in {"local", "global"} :
      SetSettings(argument, localResult, globalResult, first)

SpecOptions == OptionsInit /\ [][OptionsNext]_vars

SettingNames(object) == {object[i][1] : i \in DOMAIN object}

\* C29: setSettings puts every key of the settings into exactly one of the two
\* payloads, the local one exactly when the key is a local setting name, and makes one
\* save request for each payload; when the save fails with the code badvalue, the
\* global payload is saved as the local option of the settings option name and
\* setSettings completes; on any other failure that failure is thrown and no such
\* request is made.
C29_SettingsSplitAndBadValueFallback ==
  slast.op = "setSettings"
  => /\ \A k \in SettingNames(slast.settings) :
          /\ (k \in SettingNames(slast.localSettings)) # (k \in SettingNames(slast.globalSettings))
          /\ (k \in SettingNames(slast.localSettings)) <=> (k \in LocalSettingNames)
     /\ Len(slast.requests) >= 2
     /\ slast.requests[1] =
          Request("setLocalOption", LocalSettingsOptionFullName,
                  Stringify(slast.localSettings))
     /\ slast.requests[2] =
          Request("setGlobalOption", SettingsOptionFullName,
                  Stringify(slast.globalSettings))
     /\ slast.failure = <<>> => (Len(slast.requests) = 2 /\ slast.raised = <<>>)
     /\ (slast.failure # <<>> /\ slast.failure[1].code = "badvalue")
          => /\ Len(slast.requests) = 3
             /\ slast.requests[3] =
                  Request("setLocalOption", SettingsOptionFullName,
                          Stringify(slast.globalSettings))
             /\ slast.raised = <<>>
     /\ (slast.failure # <<>> /\ slast.failure[1].code # "badvalue")
          => /\ Len(slast.requests) = 2
             /\ slast.raised = slast.failure

----------------------------------------------------------------------------
(* The autocomplete engine with query texts that name properties of Object.prototype *)

ProtoTexts == {<<"a">>} \cup PrototypeKeys

ProtoNext ==
  \/ \E text0 \in ProtoTexts : Values(text0)
  \/ \E r \in pending : \E resp \in Responses : Resolved(r, resp)
  \/ \E r \in pending : Rejected(r)

SpecProto == Init /\ [][ProtoNext]_vars

PendingIds(p) == {r.id : r \in p}

\* C30: every query that is not suppressed makes exactly one callback before the
\* handler first awaits or returns; the handler awaits a lookup only if it requested
\* one, and its continuation makes at most one more callback, so a query without a
\* lookup makes exactly one callback in all.
C30_OneSynchronousCallbackPerQuery ==
  [][/\ (last'.op = "query" /\ qcount' # qcount /\ ~last'.suppressed)
        => /\ Len(last'.calls) = 1
           /\ ~last'.threw
           /\ PendingIds(pending') \ PendingIds(pending) =
                IF last'.requested THEN {qcount'} ELSE {}
     /\ (last'.op \in {"resolve", "reject"} /\ pending' # pending)
        => /\ Len(last'.calls) <= 1
           /\ Cardinality(PendingIds(pending)) = Cardinality(PendingIds(pending')) + 1
           /\ PendingIds(pending') \subseteq PendingIds(pending)]_vars

----------------------------------------------------------------------------
(* The cache of a channel *)

\* C31: in every state, a cache that is not empty is what a remote lookup answered for
\* a query text that is a prefix of the current snapshot; the memo keeps, for every
\* text whose lookup has resolved, that answer with the typed text put in.
C31_CacheIsOfPrefixOfSnapshot ==
  cache # <<>>
  => \E t \in DOMAIN byText :
       /\ StartsWith(AsString(snapshot), t)
       /\ byText[t] = WithTypedText(cache, t)

----------------------------------------------------------------------------
(* modifyCode and edit: what they keep *)

\* A code with no "=" has no section heading of any level.
HasNoHeading(code) == \A i \in DOMAIN code : code[i] # "="

\* C32: with the new topic on top, modifyCode keeps the whole existing code: the new
\* code is codeBeforeInsertion, the comment code, one newline and a rest, where
\* codeBeforeInsertion and the rest together are the existing code; and for a code
\* without any section heading codeBeforeInsertion is the whole existing code.
C32_TopInsertionKeepsCode ==
  (plast.op = "modifyCode" /\ plast.isNewTopicOnTop)
  => LET before == plast.codeBeforeInsertion
         rest == SubSeq(plast.pageCode, Len(before) + 1, Len(plast.pageCode))
     IN /\ Len(before) <= Len(plast.pageCode)
        /\ before \o rest = plast.pageCode
        /\ plast.newPageCode = before \o plast.commentCode \o <<"\n">> \o rest
        /\ HasNoHeading(plast.pageCode) => before = plast.pageCode

\* The life of a page that is loaded, analysed, given new code and saved.
WriteContents ==
  {Slice(pre \o ss, 0, -1) :
     pre \in {<<>>, <<"x", "\n">>},
     ss \in {<<>>, Heading \o <<"T1", "\n">>,
             Heading \o <<"T1", "\n">> \o Heading \o <<"T2", "\n">>}}

WriteNext ==
  \/ \E content \in WriteContents : \E redirect \in RedirectTargets :
       page.code = Undefined /\ GetCode(ArticleId, Revision(content, 1, redirect, 1))
  \/ AnalyzeNewTopicPlacement
  \/ \E pageCode \in PageCodes :
       \E commentCode \in CommentCodes : \E isNewTopicOnTop \in BOOLEAN :
         ModifyCode(pageCode, commentCode, isNewTopicOnTop)
  \/ \E outcome \in EditOutcomes : \E loaded \in LoadMessagesResults :
       \E parsed \in ParseCodeResults : Edit(outcome, loaded, parsed)

SpecWrite == PageInit /\ [][WriteNext]_vars

\* C33: an edit that succeeds changes no field of the page but pageId, which becomes
\* the page id of the response; an edit that fails changes no field; modifyCode
\* changes no field.
C33_EditChangesOnlyPageId ==
  [][/\ (plast'.op = "edit" /\ plast'.returned # <<>>)
        => page' = [page EXCEPT !.pageId = <<plast'.outcome[1].pageid>>]
     /\ (plast'.op = "edit" /\ plast'.returned = <<>>) => page' = page
     /\ plast'.op = "modifyCode" => page' = page]_vars

C33_Witness ==
  /\ plast.op = "edit"
  /\ plast.returned # <<>>
  /\ page.code # Undefined
  /\ page.areNewTopicsOnTop # <<>>
  /\ page.firstSectionStartIndex # <<>>
  /\ page.pageId = <<ArticleId + 1>>

----------------------------------------------------------------------------
(* options.js: packing and unpacking of the visits *)

MaxVisits == 2

DigitChars == <<"0", "1", "2", "3", "4", "5", "6", "7", "8", "9">>

IsDigit(c) == \E d \in DOMAIN DigitChars : DigitChars[d] = c

DigitValue(c) == (CHOOSE d \in DOMAIN DigitChars : DigitChars[d] = c) - 1

RECURSIVE NumberOf(_)
NumberOf(str) ==
  IF str = <<>> THEN 0
  ELSE 10 * NumberOf(SubSeq(str, 1, Len(str) - 1)) + DigitValue(str[Len(str)])

\* Object.keys of an object whose keys are integers: in ascending order.
RECURSIVE KeysInOrder(_)
KeysInOrder(keys) ==
  IF keys = {} THEN <<>>
  ELSE LET k == CHOOSE x \in keys : \A y \in keys : NumberOf(x) <= NumberOf(y)
       IN <<k>> \o KeysInOrder(keys \ {k})

ObjectKeys(object) == KeysInOrder(DOMAIN object)

\* Array.prototype.join
RECURSIVE Join(_, _)
Join(list, separator) ==
  IF list = <<>> THEN <<>>
  ELSE IF Len(list) = 1 THEN list[1]
  ELSE list[1] \o separator \o Join(Tail(list), separator)

\* String.prototype.split with a separator of one character
RECURSIVE SplitAt(_, _, _)
SplitAt(str, separator, piece) ==
  IF str = <<>> THEN <<piece>>
  ELSE IF Head(str) = separator
  THEN <<piece>> \o SplitAt(Tail(str), separator, <<>>)
  ELSE SplitAt(Tail(str), separator, Append(piece, Head(str)))

Split(str, separator) == SplitAt(str, separator, <<>>)

\* An object with the entry of key set to value
WithEntry(object, key, value) ==
  [k \in DOMAIN object \cup {key} |-> IF k = key THEN value ELSE object[k]]

EmptyObject == [k \in {} |-> <<>>]

\* packVisits(visits)
PackVisits(visits) ==
  LET keys == ObjectKeys(visits)
  IN Trim(Concat([i \in DOMAIN keys |->
                    keys[i] \o <<",">> \o Join(visits[keys[i]], <<",">>) \o <<"\n">>]))

RECURSIVE DigitsPrefixLen(_)
DigitsPrefixLen(str) ==
  IF str # <<>> /\ IsDigit(Head(str)) THEN 1 + DigitsPrefixLen(Tail(str)) ELSE 0

RECURSIVE SkipSpaces(_)
SkipSpaces(str) == IF str # <<>> /\ Head(str) = " " THEN SkipSpaces(Tail(str)) ELSE str

\* The match of /^(\d+), *(.+)$/ on one line: <<>> when the line does not match, else
\* the two groups.  When only spaces follow the comma, " *" gives the last one back
\* to "(.+)".
VisitsLineMatch(line) ==
  LET n == DigitsPrefixLen(line)
      after == SubSeq(line, n + 2, Len(line))
  IN IF n = 0 \/ Len(line) < n + 1 \/ line[n + 1] # ","
     THEN <<>>
     ELSE IF SkipSpaces(after) # <<>>
     THEN <<[key |-> SubSeq(line, 1, n), list |-> SkipSpaces(after)]>>
     ELSE IF after # <<>>
     THEN <<[key |-> SubSeq(line, 1, n), list |-> <<" ">>]>>
     ELSE <<>>

\* The loop of unpackVisits over the matches, which are whole lines
RECURSIVE UnpackLines(_, _)
UnpackLines(lines, visits) ==
  IF lines = <<>> THEN visits
  ELSE LET match == VisitsLineMatch(Head(lines))
       IN UnpackLines(Tail(lines),
                      IF match = <<>> THEN visits
                      ELSE WithEntry(visits, match[1].key, Split(match[1].list, ",")))

\* unpackVisits(visitsString)
UnpackVisits(visitsString) == UnpackLines(Split(visitsString, "\n"), EmptyObject)

\* Pages, and the times of visits as strings of seconds
VisitPageIds == {<<"7">>, <<"1", "7">>}
VisitTimestamps == {<<"1">>, <<"2", "3">>}

VisitLists == UNION {[1..n -> VisitTimestamps] : n \in 0..MaxVisits}

VisitsObjects == UNION {[ids -> VisitLists] : ids \in SUBSET VisitPageIds}

CodecStep(op, object) == [op |-> op, object |-> object, packed |-> <<>>, unpacked |-> EmptyObject]

VisitsCodecInit ==
  /\ \E visits \in VisitsObjects : slast = CodecStep("visits", visits)
  /\ page = Unused
  /\ override = Unused
  /\ plast = Unused
  /\ found = Unused
  /\ type = "mentions"
  /\ default = <<>>
  /\ snapshot = Undefined
  /\ cache = <<>>
  /\ byText = [t \in {} |-> <<>>]
  /\ pending = {}
  /\ qcount = 0
  /\ nLookups = [t \in QueryTexts |-> 0]
  /\ nAsync = [t \in QueryTexts |-> 0]
  /\ last = Step("init", <<>>)

\* unpackVisits(packVisits(visits))
PackAndUnpackVisits ==
  /\ slast.op = "visits"
  /\ slast' = [slast EXCEPT
                 !.op = "unpackVisits",
                 !.packed = PackVisits(slast.object),
                 !.unpacked = UnpackVisits(PackVisits(slast.object))]
  /\ UNCHANGED <<acVars, found, pageVars>>

VisitsCodecNext == PackAndUnpackVisits

SpecVisitsCodec == VisitsCodecInit /\ [][VisitsCodecNext]_vars

\* C35: unpacking the packed visits gives the visits back, for page ids that are
\* numbers and lists of timestamps without commas and newlines, a page with an empty
\* list included.
C35_VisitsRoundTrip ==
  slast.op = "unpackVisits" => slast.unpacked = slast.object

----------------------------------------------------------------------------
(* options.js: packing and unpacking of the watched sections *)

MaxWatched == 2

\* Mutant: the pages without watched sections are packed too.
PackWatchedSectionsAll(watchedSections) ==
  LET keys == ObjectKeys(watchedSections)
  IN Trim(Concat([i \in DOMAIN keys |->
                    <<" ">> \o keys[i] \o <<" ">>
                      \o Join(watchedSections[keys[i]], <<"\n">>) \o <<"\n">>]))

\* packWatchedSections(watchedSections)
PackWatchedSections(watchedSections) ==
  LET keys == SelectSeq(ObjectKeys(watchedSections),
                        LAMBDA pageId : Len(watchedSections[pageId]) # 0)
  IN Trim(Concat([i \in DOMAIN keys |->
                    <<" ">> \o keys[i] \o <<" ">>
                      \o Join(watchedSections[keys[i]], <<"\n">>) \o <<"\n">>]))

\* The match of /(?:^|\n )(\d+) / that starts at offset q of str (from zero): <<>>, or
\* the offset of its end and the group.
SeparatorMatch(str, q) ==
  LET from == IF q = 0 THEN 1
              ELSE IF q + 2 <= Len(str) /\ str[q + 1] = "\n" /\ str[q + 2] = " " THEN q + 3
              ELSE 0
      n == IF from = 0 THEN 0 ELSE DigitsPrefixLen(SubSeq(str, from, Len(str)))
  IN IF from = 0 \/ n = 0 \/ from + n > Len(str) \/ str[from + n] # " "
     THEN <<>>
     ELSE <<[end |-> from + n, pageId |-> SubSeq(str, from, from + n - 1)]>>

\* String.prototype.split with that regexp: p is where the piece being read starts,
\* q where a separator is looked for next.
RECURSIVE SplitPages(_, _, _)
SplitPages(str, p, q) ==
  IF q >= Len(str) THEN <<SubSeq(str, p + 1, Len(str))>>
  ELSE LET match == SeparatorMatch(str, q)
       IN IF match = <<>> \/ match[1].end = p
          THEN SplitPages(str, p, q + 1)
          ELSE <<SubSeq(str, p + 1, q), match[1].pageId>>
                 \o SplitPages(str, match[1].end, match[1].end)

\* The loop of unpackWatchedSections over the pieces, a page id and its sections in
\* turn
RECURSIVE UnpackPages(_, _)
UnpackPages(pages, watchedSections) ==
  IF Len(pages) < 2 THEN watchedSections
  ELSE UnpackPages(Tail(Tail(pages)),
                   WithEntry(watchedSections, pages[1], Split(pages[2], "\n")))

\* unpackWatchedSections(watchedSectionsString)
UnpackWatchedSections(watchedSectionsString) ==
  UnpackPages(Tail(SplitPages(watchedSectionsString, 0, 0)), EmptyObject)

\* Section names: not empty, no newline, no whitespace at either end
SectionNames == {<<"a">>, <<"2", " ", "b">>, <<"1", "7", " ", "7", " ">> \o <<"c">>}

WatchedLists == UNION {[1..n -> SectionNames] : n \in 0..MaxWatched}

WatchedObjects == UNION {[ids -> WatchedLists] : ids \in SUBSET VisitPageIds}

WatchedCodecInit ==
  /\ \E watchedSections \in WatchedObjects :
       slast = CodecStep("watchedSections", watchedSections)
  /\ page = Unused
  /\ override = Unused
  /\ plast = Unused
  /\ found = Unused
  /\ type = "mentions"
  /\ default = <<>>
  /\ snapshot = Undefined
  /\ cache = <<>>
  /\ byText = [t \in {} |-> <<>>]
  /\ pending = {}
  /\ qcount = 0
  /\ nLookups = [t \in QueryTexts |-> 0]
  /\ nAsync = [t \in QueryTexts |-> 0]
  /\ last = Step("init", <<>>)

\* unpackWatchedSections(packWatchedSections(watchedSections))
PackAndUnpackWatchedSections ==
  /\ slast.op = "watchedSections"
  /\ slast' = [slast EXCEPT
                 !.op = "unpackWatchedSections",
                 !.packed = PackWatchedSections(slast.object),
                 !.unpacked = UnpackWatchedSections(PackWatchedSections(slast.object))]
  /\ UNCHANGED <<acVars, found, pageVars>>

WatchedCodecNext == PackAndUnpackWatchedSections

SpecWatchedCodec == WatchedCodecInit /\ [][WatchedCodecNext]_vars

\* The object without the pages whose list is empty
WithoutEmptyLists(object) ==
  [k \in {x \in DOMAIN object : object[x] # <<>>} |-> object[k]]

\* C36: unpacking the packed watched sections gives the object back without the pages
\* that have no watched section, for page ids that are numbers and section names that
\* are not empty and have no newline and no whitespace at their ends, names that
\* start with digits and a space included.
C36_WatchedSectionsRoundTrip ==
  slast.op = "unpackWatchedSections" => slast.unpacked = WithoutEmptyLists(slast.object)

C36_Witness ==
  /\ slast.op = "unpackWatchedSections"
  /\ DOMAIN slast.object = VisitPageIds
  /\ slast.object[<<"7">>] = <<>>
  /\ Len(slast.object[<<"1", "7">>]) = 2
  /\ IsDigit(slast.object[<<"1", "7">>][1][1])
  /\ IsDigit(slast.object[<<"1", "7">>][2][1])
  /\ DOMAIN slast.unpacked = {<<"1", "7">>}
  /\ slast.unpacked[<<"1", "7">>] = slast.object[<<"1", "7">>]

----------------------------------------------------------------------------
(* options.js: setVisits and cleanUpVisits *)

MaxPageVisits == 6
MaxRequests == 4

\* The comparison of two strings of digits, as < of JavaScript does it
RECURSIVE StringLess(_, _)
StringLess(a, b) ==
  IF b = <<>> THEN FALSE
  ELSE IF a = <<>> THEN TRUE
  ELSE IF Head(a) # Head(b) THEN DigitValue(Head(a)) < DigitValue(Head(b))
  ELSE StringLess(Tail(a), Tail(b))

\* Object.keys(visits).reduce((acc, key) => acc.concat(visits[key]), [])
AllTimestamps(visits) ==
  LET keys == ObjectKeys(visits)
  IN Concat([i \in DOMAIN keys |-> visits[keys[i]]])

\* The number of timestamps that a visits object holds
CountTimestamps(visits) == Len(AllTimestamps(visits))

\* cleanUpVisits(originalVisits): a new object; boundary is the timestamp at the
\* index Math.floor(timestamps.length / 10) of the sorted timestamps.
CleanUpVisits(originalVisits) ==
  LET timestamps == SortSeq(AllTimestamps(originalVisits), StringLess)
      boundary == timestamps[(Len(timestamps) \div 10) + 1]
      kept(key) == SelectSeq(originalVisits[key], LAMBDA visit : ~StringLess(visit, boundary))
  IN IF timestamps = <<>> THEN EmptyObject
     ELSE [key \in {k \in DOMAIN originalVisits : kept(k) # <<>>} |-> kept(key)]

\* The visits of a page: consecutive seconds from a first one.
VisitsFrom(first, n) == [i \in 1..n |-> <<DigitChars[first + i]>>]

FirstVisits == {1, 2, 3}

\* The number of timestamps above which the option store answers with the size limit
\* error
SizeLimits == {3, 8, 11}

SavedVisitsObjects ==
  {[id \in VisitPageIds |->
      IF id = <<"7">> THEN VisitsFrom(a, n) ELSE VisitsFrom(b, m)] :
     a \in FirstVisits, b \in FirstVisits, n \in 0..MaxPageVisits, m \in 0..MaxPageVisits}

\* What setLocalOption is answered with
SaveAnswers == {"ok", "sizeLimit", "CdError", "Error"}

VisitsStep(op, visits, limit) ==
  [op |-> op, original |-> visits, visits |-> visits, limit |-> limit,
   payload |-> <<>>, requests |-> 0, pending |-> FALSE, answer |-> "",
   logged |-> 0, raised |-> FALSE]

SetVisitsInit ==
  /\ \E visits \in SavedVisitsObjects : \E limit \in SizeLimits :
       slast = VisitsStep("init", visits, limit)
  /\ page = Unused
  /\ override = Unused
  /\ plast = Unused
  /\ found = Unused
  /\ type = "mentions"
  /\ default = <<>>
  /\ snapshot = Undefined
  /\ cache = <<>>
  /\ byText = [t \in {} |-> <<>>]
  /\ pending = {}
  /\ qcount = 0
  /\ nLookups = [t \in QueryTexts |-> 0]
  /\ nAsync = [t \in QueryTexts |-> 0]
  /\ last = Step("init", <<>>)

\* setVisits(visits) up to its await: the visits are packed and the save is requested.
SetVisits ==
  /\ slast.op = "init"
  /\ slast' = [slast EXCEPT
                 !.op = "setVisits",
                 !.payload = PackVisits(slast.visits),
                 !.requests = 1,
                 !.pending = TRUE]
  /\ UNCHANGED <<acVars, found, pageVars>>

\* The rest of setVisits once the option store has answered; the store answers with
\* the size limit error exactly when the payload holds more timestamps than the limit.
\* On that error setVisits is called again with the cleaned up visits.
SaveAnswered(answer) ==
  /\ slast.pending
  /\ (answer = "sizeLimit") <=> (CountTimestamps(slast.visits) > slast.limit)
  /\ answer = "sizeLimit" => slast.requests < MaxRequests
  /\ slast' =
       IF answer = "ok"
       THEN [slast EXCEPT !.op = "answered", !.answer = answer, !.pending = FALSE]
       ELSE IF answer = "sizeLimit"
       THEN [slast EXCEPT
               !.op = "answered",
               !.answer = answer,
               !.visits = CleanUpVisits(slast.visits),
               !.payload = PackVisits(CleanUpVisits(slast.visits)),
               !.requests = @ + 1]
       ELSE [slast EXCEPT
               !.op = "answered", !.answer = answer, !.pending = FALSE, !.logged = @ + 1]
  /\ UNCHANGED <<acVars, found, pageVars>>

SetVisitsNext ==
  \/ SetVisits
  \/ \E answer \in SaveAnswers : SaveAnswered(answer)

SpecSetVisits == SetVisitsInit /\ [][SetVisitsNext]_vars

\* C34: with a store that answers with the size limit error exactly above a fixed
\* number of timestamps, every retry of setVisits submits strictly fewer timestamps
\* than the attempt that was rejected and leaves the original visits as they were, and
\* a save that is accepted or rejected otherwise is followed by no request and by no
\* exception.
C34_RetrySubmitsFewerTimestamps ==
  [][/\ (slast.pending /\ slast'.answer = "sizeLimit" /\ slast'.requests > slast.requests)
        => /\ CountTimestamps(slast'.visits) < CountTimestamps(slast.visits)
           /\ slast'.original = slast.original
     /\ (slast.pending /\ slast'.answer # "sizeLimit" /\ slast'.op = "answered")
        => /\ ~slast'.pending
           /\ slast'.requests = slast.requests
           /\ ~slast'.raised]_vars

====
